---- MODULE Spec2Model ----
(***************************************************************************)
(* Login flow of the W&B client: wandb/sdk/wandb_login.py (login, _login,  *)
(* _WandbLogin) and wandb/lib/apikey.py (prompt_api_key, write_key).       *)
(* wandb_login.py imports apikey from wandb/sdk/lib, which is not among    *)
(* the sources: its prompt_api_key and write_key are those of              *)
(* wandb/lib/apikey.py, the only ones there are; the keyword no_create     *)
(* that wandb_login.py passes has no part in their flow.                   *)
(*                                                                         *)
(* A str is the sequence of its Unicode code points (natural numbers).     *)
(* Python values that a key variable can hold (None, a str, a 2-tuple, a   *)
(* bool) are records with a tag t.  One login invocation runs at a time;   *)
(* pc is its position.                                                     *)
(***************************************************************************)
EXTENDS Integers, Sequences, FiniteSets, TLC

VARIABLES
    pc,        \* position of the running invocation
    entry,     \* "login" (_login) or "apikey" (apikey.prompt_api_key called directly)
    args,      \* arguments of the running invocation
    settings,  \* the process-wide settings object (_wl._settings)
    store,     \* the credential store (netrc): host -> Python value
    store0,    \* the store as it was when the running invocation started
    settings0, \* the settings as they were when the running invocation started
    trace,     \* calls made by the running invocation, in order
    offline,   \* _login: wlogin._settings._offline as read after setup
    logged_in, \* _login: logged_in
    choices,   \* prompt_api_key: choices
    result,    \* prompt_api_key: result
    tty,       \* prompt_api_key: <<isatty(sys.stdout), isatty(sys.stdin)>> as read
    jupyter,   \* prompt_api_key: jupyter
    key,       \* prompt_api_key: key
    wkey,      \* _WandbLogin._key
    line,      \* prompt_api_key: the text input() returned at the menu
    idx,       \* prompt_api_key: idx
    tries,     \* prompt_api_key: number of menu reads so far
    ret,  \* outcome of the invocation
    cfg,       \* the configuration of the repeated login (runs in a row)
    runs       \* how many times the repeated login has been started

vars == <<pc, entry, args, settings, store, store0, settings0, trace,
          offline, logged_in, choices, result, tty, jupyter, key, wkey,
          line, idx, tries, ret, cfg, runs>>

----------------------------------------------------------------------------
(* Bounds *)

\* how many invalid lines the operator types at one menu before a valid one
MaxInvalidEntries == 1

----------------------------------------------------------------------------
(* Strings *)

KeyLen == 40

Rep(c, n) == [i \in 1..n |-> c]

Contains(s, c) == \E i \in 1..Len(s) : s[i] = c

\* index of the first occurrence of c in s, 0 when there is none
IndexOf(s, c) ==
    IF Contains(s, c)
    THEN CHOOSE i \in 1..Len(s) : s[i] = c /\ \A j \in 1..(i - 1) : s[j] # c
    ELSE 0

\* str.split(sep) for a one-character separator: the list of the parts
RECURSIVE Split(_, _)
Split(s, c) ==
    IF ~Contains(s, c)
    THEN <<s>>
    ELSE LET i == IndexOf(s, c)
         IN  <<SubSeq(s, 1, i - 1)>> \o Split(SubSeq(s, i + 1, Len(s)), c)

\* code points of the characters the code names, and of those the inputs use
Dash == 45
Plus == 43
Underscore == 95
Space == 32
Tab == 9
LineFeed == 10
VT == 11
FormFeed == 12
CarriageReturn == 13
FS == 28
GS == 29
RS == 30
US == 31
NEL == 133
NBSP == 160
OghamSpace == 5760
EmSpace == 8195
Zero == 48
ArabicZero == 1776
FullwidthZero == 65296
LetterA == 97

\* the ASCII string of a decimal digit d
Dig(d) == Zero + d

\* the whitespace of str.strip(): the code points of which str.isspace() is
\* true
Whitespace ==
    (Tab..CarriageReturn) \cup (FS..Space) \cup {NEL, NBSP, OghamSpace}
        \cup (8192..8202) \cup {8232, 8233, 8239, 8287, 12288}

\* the whitespace of int(): that of str.strip() less the separators 0x1c to
\* 0x1f, which int() does not skip
IntWhitespace == Whitespace \ (FS..US)

IsSpace(c) == c \in Whitespace

\* str.strip(): drop leading and trailing whitespace
RECURSIVE LStrip(_)
LStrip(s) == IF s # <<>> /\ IsSpace(s[1]) THEN LStrip(Tail(s)) ELSE s

RECURSIVE RStrip(_)
RStrip(s) ==
    IF s # <<>> /\ IsSpace(s[Len(s)]) THEN RStrip(SubSeq(s, 1, Len(s) - 1)) ELSE s

Strip(s) == RStrip(LStrip(s))

\* int(): what is left of the text once the whitespace around it is skipped
RECURSIVE IntLStrip(_)
IntLStrip(s) == IF s # <<>> /\ s[1] \in IntWhitespace THEN IntLStrip(Tail(s)) ELSE s

RECURSIVE IntRStrip(_)
IntRStrip(s) ==
    IF s # <<>> /\ s[Len(s)] \in IntWhitespace
    THEN IntRStrip(SubSeq(s, 1, Len(s) - 1)) ELSE s

IntStrip(s) == IntRStrip(IntLStrip(s))

\* the digit zero of every script with decimal digits (Unicode 14); the
\* digits 0 to 9 of a script are ten consecutive code points
DecimalZeros ==
    {Zero, 1632, ArabicZero, 1984, 2406, 2534, 2662, 2790, 2918, 3046, 3174, 3302,
     3430, 3558, 3664, 3792, 3872, 4160, 4240, 6112, 6160, 6470, 6608, 6784,
     6800, 6992, 7088, 7232, 7248, 42528, 43216, 43264, 43472, 43504, 43600,
     44016, FullwidthZero, 66720, 68912, 69734, 69872, 69942, 70096, 70384, 70736,
     70864, 71248, 71360, 71472, 71904, 72016, 72784, 73040, 73120, 92768,
     92864, 93008, 120782, 120792, 120802, 120812, 120822, 123200, 123632,
     125264, 130032}

\* the decimal digits int() takes: those of any script
IsDigit(c) == \E z \in DecimalZeros : c \in z..(z + 9)

DigitVal(c) == c - (CHOOSE z \in DecimalZeros : c \in z..(z + 9))

RECURSIVE DecVal(_)
DecVal(s) == IF s = <<>> THEN 0 ELSE 10 * DecVal(SubSeq(s, 1, Len(s) - 1)) + DigitVal(s[Len(s)])

\* the digits of a literal without its underscores
NoUnderscores(s) == SelectSeq(s, LAMBDA c : c # Underscore)

\* the most digits int() converts (sys.get_int_max_str_digits(), as the
\* interpreter sets it when nothing configures it); a longer literal is a
\* ValueError
IntMaxStrDigits == 4300

\* the digits of an int() literal: decimal digits, with single underscores
\* allowed between digits, at most IntMaxStrDigits digits in all
IntLiteral(s) ==
    /\ s # <<>>
    /\ \A i \in 1..Len(s) : IsDigit(s[i]) \/ s[i] = Underscore
    /\ IsDigit(s[1])
    /\ IsDigit(s[Len(s)])
    /\ \A i \in 1..(Len(s) - 1) : ~(s[i] = Underscore /\ s[i + 1] = Underscore)
    /\ Len(NoUnderscores(s)) <= IntMaxStrDigits

\* int(text): surrounding whitespace, one sign and underscores between the
\* digits are allowed
IntOk(text) ==
    LET s == IntStrip(text)
    IN  \/ IntLiteral(s)
        \/ s # <<>> /\ s[1] \in {Dash, Plus} /\ IntLiteral(Tail(s))

IntVal(text) ==
    LET s == IntStrip(text)
    IN  IF s[1] = Dash THEN 0 - DecVal(NoUnderscores(Tail(s)))
        ELSE IF s[1] = Plus THEN DecVal(NoUnderscores(Tail(s)))
        ELSE DecVal(NoUnderscores(s))

----------------------------------------------------------------------------
(* Python values *)

None == [t |-> "none", s |-> <<>>, a |-> FALSE]
Str(s) == [t |-> "str", s |-> s, a |-> FALSE]
\* the 2-tuple (k, a) a browser callback may return: k a str or None (t is
\* "tuple" or "tuple0"), a a bool
Pair(k, a) == [t |-> IF k.t = "none" THEN "tuple0" ELSE "tuple", s |-> k.s, a |-> a]
Bool(b) == [t |-> "bool", s |-> <<>>, a |-> b]

IsTuple(v) == v.t \in {"tuple", "tuple0"}

\* the first element of a 2-tuple
First(v) == IF v.t = "tuple0" THEN None ELSE Str(v.s)

\* bool(v)
Truthy(v) ==
    CASE v.t = "none" -> FALSE
      [] v.t = "str" -> v.s # <<>>
      [] IsTuple(v) -> TRUE
      [] v.t = "bool" -> v.a

\* outcomes of a call
Returned(v) == [kind |-> "return", val |-> v, exc |-> "", len |-> 0]
Raised(e, n) == [kind |-> "raise", val |-> None, exc |-> e, len |-> n]
NoOutcome == [kind |-> "none", val |-> None, exc |-> "", len |-> 0]

----------------------------------------------------------------------------
(* apikey.py: constants and pure parts *)

LOGIN_CHOICE_ANON == "ANON"
LOGIN_CHOICE_NEW == "NEW"
LOGIN_CHOICE_EXISTS == "EXISTS"
LOGIN_CHOICE_DRYRUN == "DRYRUN"
LOGIN_CHOICES ==
    <<LOGIN_CHOICE_ANON, LOGIN_CHOICE_NEW, LOGIN_CHOICE_EXISTS, LOGIN_CHOICE_DRYRUN>>

\* list.remove(x): drop the first occurrence of x
Remove(l, x) ==
    LET i == IndexOf(l, x)
    IN  SubSeq(l, 1, i - 1) \o SubSeq(l, i + 1, Len(l))

\* anon_mode = settings.anonymous or "never"
AnonMode(a) == IF a.anonymous = "none" THEN "never" ELSE a.anonymous

\* the list choices of prompt_api_key
MenuChoices(anon_mode, jup, no_offline) ==
    LET c1 == IF anon_mode = "never" THEN Remove(LOGIN_CHOICES, LOGIN_CHOICE_ANON)
              ELSE LOGIN_CHOICES
    IN  IF jup \/ no_offline THEN Remove(c1, LOGIN_CHOICE_DRYRUN) ELSE c1

\* Decide with the terminal check ahead of the must check
Decide_TtyFirst(anon_mode, tty_out, tty_in, local) ==
    IF ~tty_out \/ ~tty_in THEN LOGIN_CHOICE_DRYRUN
    ELSE IF anon_mode = "must" THEN LOGIN_CHOICE_ANON
    ELSE IF local THEN LOGIN_CHOICE_EXISTS
    ELSE "MENU"

\* Decide with the local check ahead of the terminal check
Decide_LocalFirst(anon_mode, tty_out, tty_in, local) ==
    IF anon_mode = "must" THEN LOGIN_CHOICE_ANON
    ELSE IF local THEN LOGIN_CHOICE_EXISTS
    ELSE IF ~tty_out \/ ~tty_in THEN LOGIN_CHOICE_DRYRUN
    ELSE "MENU"

\* the if/elif chain that sets result before the menu; "MENU" stands for the
\* else branch, where the operator is asked
Decide(anon_mode, tty_out, tty_in, local) ==
    IF anon_mode = "must" THEN LOGIN_CHOICE_ANON
    ELSE IF ~tty_out \/ ~tty_in THEN LOGIN_CHOICE_DRYRUN
    ELSE IF local THEN LOGIN_CHOICE_EXISTS
    ELSE "MENU"

\* PromptChoice without the conversion to a 0-based index
PromptChoice_NoOffset(text) == IF IntOk(text) THEN IntVal(text) ELSE 0 - 1

\* prompt_choice(): int(input(...)) - 1, or -1 on ValueError
PromptChoice(text) == IF IntOk(text) THEN IntVal(text) - 1 ELSE 0 - 1

\* prefix, suffix = key.split("-") if "-" in key else ("", key), for a str key:
\* the list that is unpacked into (prefix, suffix)
SplitKey(s) == IF Contains(s, Dash) THEN Split(s, Dash) ELSE << <<>>, s >>

\* WriteKey without the length check
WriteKey_NoLengthCheck(k) ==
    IF ~Truthy(k) THEN [out |-> Returned(None), put |-> FALSE]
    ELSE [out |-> Returned(None), put |-> TRUE]

\* write_key(settings, key): out is how the call ends, put whether
\* write_netrc(args.host, "user", key) was called
WriteKey(k) ==
    IF ~Truthy(k) THEN [out |-> Returned(None), put |-> FALSE]
    ELSE IF k.t = "str" THEN
        LET parts == SplitKey(k.s)
        IN  IF Len(parts) # 2
            THEN [out |-> Raised("ValueError:unpack", 0), put |-> FALSE]
            ELSE IF Len(parts[2]) = KeyLen
            THEN [out |-> Returned(None), put |-> TRUE]
            ELSE [out |-> Raised("ValueError:length", Len(k.s)), put |-> FALSE]
    ELSE IF IsTuple(k) THEN
        \* "-" in key compares the elements with "-"; a tuple has no split
        IF First(k) = Str(<<Dash>>)
        THEN [out |-> Raised("AttributeError", 0), put |-> FALSE]
        ELSE [out |-> Raised("ValueError:length", 2), put |-> FALSE]
    ELSE [out |-> Raised("TypeError", 0), put |-> FALSE]

\* DryRunCallback without the notebook condition
DryRunCallback_AnyEnv(jup, cb) == cb

\* the else branch calls browser_callback() if jupyter and browser_callback
DryRunCallback(jup, cb) == jup /\ cb

\* key, anonymous = browser_callback(): unpacking of the callback's result
UnpackPair(v) ==
    CASE IsTuple(v) -> [out |-> Returned(First(v)), ok |-> TRUE]
      [] v.t = "str" ->
            IF Len(v.s) = 2
            THEN [out |-> Returned(Str(<<v.s[1]>>)), ok |-> TRUE]
            ELSE [out |-> Raised("ValueError:unpack", 0), ok |-> FALSE]
      [] OTHER -> [out |-> Raised("TypeError", 0), ok |-> FALSE]

\* apikey.api_key(settings): the credential that resolves for the configured
\* host, None when there is none
ApiKey(host, st) == st[host]

\* SessionSettings with no switch to offline mode for an absent key
SessionSettings_NoOffline(s, k) ==
    IF Truthy(k) THEN [s EXCEPT !.api_key = k] ELSE s

\* _WandbLogin.update_session(key): the settings after _wl._update
SessionSettings(s, k) ==
    IF Truthy(k) THEN [s EXCEPT !.api_key = k] ELSE [s EXCEPT !.offline = TRUE]

Ev(op, v) == [op |-> op, v |-> v]

\* write_netrc(host, "user", k) when write_key w reached it
Put(st, host, k, w) == IF w.put THEN [st EXCEPT ![host] = k] ELSE st

WriteEvents(k, w) ==
    <<Ev("write_key", k)>> \o (IF w.put THEN <<Ev("write_netrc", k)>> ELSE <<>>)

\* the calls update_session makes: the update, then _update_user_settings
\* when the session is not offline
SessionEvents(s, k) ==
    <<Ev("update_session", k)>>
        \o (IF ~SessionSettings(s, k).offline THEN <<Ev("refresh", k)>> ELSE <<>>)

\* how write_netrc may end when write_key w calls it: TRUE when the entry was
\* stored, FALSE when the store could not be written
WriteOutcomes(w) == IF w.put THEN BOOLEAN ELSE {TRUE}

\* the store after write_key w, whose write_netrc call ended ok or not;
\* write_key does not look at what write_netrc returns
NetrcWrite(st, host, k, w, ok) == IF ok THEN Put(st, host, k, w) ELSE st

WriteCallEvents(k, w, ok) ==
    WriteEvents(k, w) \o (IF w.put /\ ~ok THEN <<Ev("write_netrc_failed", k)>> ELSE <<>>)

\* how _update_user_settings may go in update_session(k): TRUE when the
\* settings were pulled, FALSE when the call of the remote service failed
RefreshOutcomes(s, k) == IF ~SessionSettings(s, k).offline THEN BOOLEAN ELSE {TRUE}

\* how _wl._update_user_settings() ends in update_session, which has nothing
\* around the call: a failed call of the remote service is an exception, as
\* it is for the issuance call
RefreshEnds(ok) == IF ok THEN Returned(None) ELSE Raised("CommError", 0)

SessionCallEvents(s, k, ok) ==
    SessionEvents(s, k) \o (IF ~ok THEN <<Ev("refresh_failed", k)>> ELSE <<>>)

----------------------------------------------------------------------------
(* Inputs *)

Hosts == {"api.wandb.ai"}

\* "a" * 40, "p-" + "a" * 40, "onprem-xyz", "p-q-" + "a" * 38
KGood == Rep(LetterA, KeyLen)
KOnprem == <<112, Dash>> \o Rep(LetterA, KeyLen)
KShort == <<111, 110, 112, 114, 101, 109, Dash, 120, 121, 122>>
KTwoDash == <<112, Dash, 113, Dash>> \o Rep(LetterA, KeyLen - 2)
\* "a" * 40 with whitespace around it
KPadded ==
    <<Space, Tab, VT, NBSP, EmSpace>> \o KGood \o <<US, CarriageReturn, LineFeed, OghamSpace>>

\* values of the key argument of login
ExplicitKeys == {None, Str(KGood), Str(KOnprem), Str(KShort), Str(KTwoDash)}

\* lines the operator may type at the masked read
PasteInputs == {<<>>, KPadded, KOnprem, KShort}

\* values a browser callback may return
CallbackResults ==
    {None, Str(KGood), Str(KShort), Pair(Str(KGood), FALSE), Pair(None, FALSE)}

\* how api.create_anonymous_api_key() may end
IssueOutcomes ==
    {Returned(Str(KGood)), Returned(Str(KShort)), Returned(Str(<<>>)),
     Raised("CommError", 0)}

\* "0" * 4300 + "1": the number 1 written with one digit more than int()
\* converts
LongOne ==
    [i \in 1..(IntMaxStrDigits + 1) |-> IF i > IntMaxStrDigits THEN Dig(1) ELSE Dig(0)]

\* lines the operator may type at the menu
MenuInputs ==
    {<<Dig(0)>>, <<VT, Dig(1), Tab>>, <<Dig(0), Underscore, Dig(2)>>, <<ArabicZero + 3>>,
     <<OghamSpace, FullwidthZero + 4, LineFeed>>, <<Dig(5)>>, <<FS, Dig(2)>>, <<120>>, <<>>,
     LongOne}

AnonModes == {"none", "never", "allow", "must"}

----------------------------------------------------------------------------
(* State *)

NoArgs ==
    [anonymous |-> "none", key |-> None, relogin |-> FALSE,
     host |-> "api.wandb.ai", force |-> FALSE, silent |-> FALSE, run |-> FALSE,
     cb |-> FALSE, no_offline |-> FALSE, local |-> FALSE]

\* the configuration of a login invocation: its arguments and whether the
\* environment its settings are merged with makes them offline
NoCfg ==
    [anonymous |-> "none", key |-> None, relogin |-> FALSE,
     host |-> "api.wandb.ai", force |-> FALSE, silent |-> FALSE, run |-> FALSE,
     off |-> FALSE]

Init ==
    /\ pc = "idle"
    /\ entry = "none"
    /\ args = NoArgs
    /\ settings = [api_key |-> None, offline |-> FALSE]
    /\ store = [h \in Hosts |-> None]
    /\ store0 = store
    /\ settings0 = settings
    /\ trace = <<>>
    /\ offline = FALSE
    /\ logged_in = FALSE
    /\ choices = <<>>
    /\ result = ""
    /\ tty = <<FALSE, FALSE>>
    /\ jupyter = FALSE
    /\ key = None
    /\ wkey = None
    /\ line = <<>>
    /\ idx = 0 - 1
    /\ tries = 0
    /\ ret = NoOutcome
    /\ cfg = NoCfg
    /\ runs = 0

\* the locals of a fresh invocation (offline apart, which _login sets, and
\* the calls made, which start with those of the entry)
Fresh ==
    /\ store0' = store
    /\ settings0' = settings
    /\ logged_in' = FALSE
    /\ choices' = <<>>
    /\ result' = ""
    /\ tty' = <<FALSE, FALSE>>
    /\ jupyter' = FALSE
    /\ key' = None
    /\ wkey' = None
    /\ line' = <<>>
    /\ idx' = 0 - 1
    /\ tries' = 0

CanCall == pc = "idle"

Done(outcome) == pc' = "done" /\ ret' = outcome

----------------------------------------------------------------------------
(* wandb_login.py *)

\* _WandbLogin.setup(kwargs): the login arguments (kept in args) are applied
\* to the settings object shared by the process; whether the merged settings
\* are offline comes from the environment they are merged with
Setup(s, off) == [s EXCEPT !.offline = off]

\* OfflineExit that never returns
OfflineExit_Never(s) == FALSE

\* if wlogin._settings._offline: return False
OfflineExit(s) == s.offline

\* ApiKeyConfigured that does not look at relogin
ApiKeyConfigured_IgnoresRelogin(host, st, relogin) == ApiKey(host, st) # None

\* ApiKeyConfigured with the relogin test inverted
ApiKeyConfigured_ReloginInverted(host, st, relogin) ==
    ApiKey(host, st) # None /\ relogin

\* _WandbLogin.login(): apikey_configured, which relogin resets
ApiKeyConfigured(host, st, relogin) == ApiKey(host, st) # None /\ ~relogin

\* LoginEnter with setup and the offline return ahead of the active-run
\* return
LoginEnter_OfflineFirst(anonymous, k, relogin, host, force, silent, run, off) ==
    /\ CanCall
    /\ Fresh
    /\ entry' = "login"
    /\ args' = [anonymous |-> anonymous, key |-> k, relogin |-> relogin,
                host |-> host, force |-> force, silent |-> silent, run |-> run,
                cb |-> FALSE, no_offline |-> force, local |-> FALSE]
    /\ settings' = Setup(settings, off)
    /\ offline' = settings'.offline
    /\ IF OfflineExit(settings')
       THEN trace' = <<>> /\ Done(Returned(Bool(FALSE)))
       ELSE IF run
       THEN /\ \E disable_warning \in BOOLEAN :
                 trace' = (IF disable_warning THEN <<>> ELSE <<Ev("termwarn", None)>>)
            /\ Done(Returned(Bool(TRUE)))
       ELSE trace' = <<>> /\ pc' = "login" /\ ret' = NoOutcome
    /\ UNCHANGED store

\* _login up to the offline check: the active-run return, the construction
\* and setup of the _WandbLogin, the offline return
LoginEnter(anonymous, k, relogin, host, force, silent, run, off) ==
    /\ CanCall
    /\ Fresh
    /\ entry' = "login"
    /\ args' = [anonymous |-> anonymous, key |-> k, relogin |-> relogin,
                host |-> host, force |-> force, silent |-> silent, run |-> run,
                cb |-> FALSE, no_offline |-> force, local |-> FALSE]
    /\ IF run
       THEN /\ \E disable_warning \in BOOLEAN :
                 trace' = (IF disable_warning THEN <<>> ELSE <<Ev("termwarn", None)>>)
            /\ Done(Returned(Bool(TRUE)))
            /\ UNCHANGED <<settings, offline>>
       ELSE /\ trace' = <<>>
            /\ settings' = Setup(settings, off)
            /\ offline' = settings'.offline
            /\ IF OfflineExit(settings')
               THEN Done(Returned(Bool(FALSE)))
               ELSE pc' = "login" /\ ret' = NoOutcome
    /\ UNCHANGED store

\* a call of wandb.login(...)
LoginCall(anonymous, k, relogin, host, force, silent, run, off) ==
    /\ LoginEnter(anonymous, k, relogin, host, force, silent, run, off)
    /\ UNCHANGED <<cfg, runs>>

\* how many times the repeated login is started
MaxRuns == 2

\* wandb.login(...) called again with the configuration cfg
LoginRun ==
    /\ runs < MaxRuns
    /\ LoginEnter(cfg.anonymous, cfg.key, cfg.relogin, cfg.host, cfg.force,
                  cfg.silent, cfg.run, cfg.off)
    /\ runs' = runs + 1
    /\ UNCHANGED cfg

\* _WandbLogin.login(): is a credential configured, unless relogin; the
\* identity display when it is and the login is not silent
WLoginLogin ==
    /\ pc = "login"
    /\ LET apikey_configured == ApiKeyConfigured(args.host, store, args.relogin)
           display == apikey_configured /\ ~args.silent
       IN  /\ logged_in' = apikey_configured
           /\ trace' = trace \o <<Ev("api_key", None)>>
                  \o (IF display THEN <<Ev("login_display", None)>> ELSE <<>>)
           /\ pc' = "key"
    /\ UNCHANGED <<cfg, runs, entry, args, settings, store, store0, settings0, offline,
                   choices, result, tty, jupyter, key, wkey, line, idx, tries, ret>>

\* PromptNeeded whatever the key
PromptNeeded_Always(k) == TRUE

\* _login: if not key, wlogin.prompt_api_key() is called
PromptNeeded(k) == ~Truthy(k)

\* configure_api_key: the warning about keys in code, in a notebook that is
\* not silent (both read from the settings)
ConfigureWarning(jup, quiet) ==
    IF jup /\ ~quiet THEN <<Ev("termwarn", None)>> ELSE <<>>

\* _login after wlogin.login(): configure_api_key(key) for an explicit key;
\* the return of logged_in; the call of wlogin.prompt_api_key() without a
\* key, which calls apikey.prompt_api_key with no_offline=force and no
\* browser callback
LoginKey ==
    /\ pc = "key"
    /\ IF Truthy(args.key)
       THEN \E jup \in BOOLEAN, quiet \in BOOLEAN :
            LET w == WriteKey(args.key)
                warned == trace \o ConfigureWarning(jup, quiet)
            IN  /\ jupyter' = jup
                /\ IF w.out.kind = "raise"
                   THEN /\ Done(w.out)
                        /\ trace' = warned \o WriteEvents(args.key, w)
                        /\ UNCHANGED <<settings, store, wkey>>
                   ELSE \E wok \in WriteOutcomes(w),
                           rok \in RefreshOutcomes(settings, args.key) :
                        LET prompts == ~logged_in /\ PromptNeeded(args.key)
                            called == warned \o WriteCallEvents(args.key, w, wok)
                                             \o SessionCallEvents(settings, args.key, rok)
                        IN
                        /\ store' = NetrcWrite(store, args.host, args.key, w, wok)
                        /\ settings' = SessionSettings(settings, args.key)
                        /\ IF RefreshEnds(rok).kind = "raise"
                           THEN /\ Done(RefreshEnds(rok))
                                /\ trace' = called
                                /\ UNCHANGED wkey
                           ELSE /\ wkey' = args.key
                                /\ trace' = called \o (IF prompts
                                                       THEN <<Ev("prompt_api_key", None)>>
                                                       ELSE <<>>)
                                /\ IF logged_in
                                   THEN Done(Returned(Bool(TRUE)))
                                   ELSE IF prompts
                                   THEN pc' = "decide" /\ UNCHANGED ret
                                   ELSE pc' = "finish" /\ UNCHANGED ret
       ELSE /\ UNCHANGED <<settings, store, wkey, jupyter>>
            /\ IF logged_in
               THEN Done(Returned(Bool(TRUE))) /\ UNCHANGED trace
               ELSE IF PromptNeeded(args.key)
               THEN /\ pc' = "decide"
                    /\ trace' = trace \o <<Ev("prompt_api_key", None)>>
                    /\ UNCHANGED ret
               ELSE /\ pc' = "finish"
                    /\ UNCHANGED <<trace, ret>>
    /\ UNCHANGED <<cfg, runs, entry, args, store0, settings0, offline, logged_in, choices, result,
                   tty, key, line, idx, tries>>

----------------------------------------------------------------------------
(* apikey.py: prompt_api_key *)

\* a direct call of apikey.prompt_api_key(settings, browser_callback=...,
\* no_offline=..., local=...) by a caller other than _login
PromptCall(anonymous, host, cb, no_offline, local) ==
    /\ CanCall
    /\ Fresh
    /\ entry' = "apikey"
    /\ args' = [NoArgs EXCEPT !.anonymous = anonymous, !.host = host, !.cb = cb,
                              !.no_offline = no_offline, !.local = local]
    /\ pc' = "decide"
    /\ ret' = NoOutcome
    /\ trace' = <<>>
    /\ UNCHANGED <<store, settings, offline, cfg, runs>>

\* PromptEnds with an exception of prompt_api_key caught in _login, which
\* goes on with the key
PromptEnds_SwallowsRaise(outcome) ==
    IF entry = "login"
    THEN pc' = "bind" /\ UNCHANGED ret
    ELSE Done(outcome)

\* how prompt_api_key ends: back in _WandbLogin.prompt_api_key with the value
\* it returned, or at the direct caller; an exception passes through
\* _WandbLogin.prompt_api_key and _login, which catch nothing
PromptEnds(outcome) ==
    IF entry = "login" /\ outcome.kind = "return"
    THEN pc' = "bind" /\ UNCHANGED ret
    ELSE Done(outcome)

\* write_key(settings, key); return key
WriteAndReturn(k, events) ==
    LET w == WriteKey(k)
    IN  \E wok \in WriteOutcomes(w) :
        /\ key' = k
        /\ store' = NetrcWrite(store, args.host, k, w, wok)
        /\ trace' = trace \o events \o WriteCallEvents(k, w, wok)
        /\ PromptEnds(IF w.out.kind = "raise" THEN w.out ELSE Returned(k))

\* prompt_api_key up to the menu: the choices, the terminal checks, the
\* if/elif chain and the listing of the menu
DecideStep(jup, tty_out, tty_in) ==
    /\ pc = "decide"
    /\ jupyter' = jup
    /\ tty' = <<tty_out, tty_in>>
    /\ choices' = MenuChoices(AnonMode(args), jup, args.no_offline)
    /\ LET d == Decide(AnonMode(args), tty_out, tty_in, args.local)
       IN  IF d = "MENU"
           THEN pc' = "menu" /\ UNCHANGED result
           ELSE pc' = "acquire" /\ result' = d
    /\ UNCHANGED <<cfg, runs, entry, args, settings, store, store0, settings0,
                   trace, offline, logged_in, key, wkey, line, idx, tries, ret>>

\* prompt_choice() for each line of MenuInputs, worked out once
MenuIndex == [text \in MenuInputs |-> PromptChoice(text)]

\* prompt_choice() when input() returns text
ChoiceRead(text) == IF text \in MenuInputs THEN MenuIndex[text] ELSE PromptChoice(text)

\* the test of the menu loop: idx < 0 or idx > len(choices) - 1
InvalidIndex(i, menu) == i < 0 \/ i > Len(menu) - 1

\* one round of the menu loop: a line is read, an invalid index is warned
\* about and asked again, a valid one selects choices[idx].  The loop goes on
\* for as long as the operator types invalid lines; tries counts the reads,
\* and the operator types at most MaxInvalidEntries invalid lines.
MenuRead(text) ==
    /\ pc = "menu"
    /\ tries < MaxInvalidEntries \/ ~InvalidIndex(ChoiceRead(text), choices)
    /\ tries' = tries + 1
    /\ line' = text
    /\ idx' = ChoiceRead(text)
    /\ IF InvalidIndex(idx', choices)
       THEN /\ trace' = trace \o <<Ev("input", None), Ev("termwarn", None)>>
            /\ UNCHANGED <<pc, result>>
       ELSE /\ trace' = trace \o <<Ev("input", None)>>
            /\ result' = choices[idx' + 1]
            /\ pc' = "acquire"
    /\ UNCHANGED <<cfg, runs, entry, args, settings, store, store0, settings0,
                   offline, logged_in, choices, tty, jupyter, key, wkey, ret>>

\* AcquireAnon with a failed issuance caught: the prompt returns no key
AcquireAnon_SwallowsFailure(issued) ==
    /\ pc = "acquire"
    /\ result = LOGIN_CHOICE_ANON
    /\ IF issued.kind = "raise"
       THEN /\ trace' = trace \o <<Ev("create_anonymous_api_key", None),
                                   Ev("issuance_failed", None)>>
            /\ key' = None
            /\ PromptEnds(Returned(None))
            /\ UNCHANGED store
       ELSE WriteAndReturn(issued.val, <<Ev("create_anonymous_api_key", None)>>)
    /\ UNCHANGED <<cfg, runs, entry, args, settings, store0, settings0, offline, logged_in, choices,
                   result, tty, jupyter, wkey, line, idx, tries>>

\* the Anonymous branch: the issuance call, write_key, return
AcquireAnon(issued) ==
    /\ pc = "acquire"
    /\ result = LOGIN_CHOICE_ANON
    /\ IF issued.kind = "raise"
       THEN /\ trace' = trace \o <<Ev("create_anonymous_api_key", None),
                                   Ev("issuance_failed", None)>>
            /\ Done(issued)
            /\ UNCHANGED <<key, store>>
       ELSE WriteAndReturn(issued.val, <<Ev("create_anonymous_api_key", None)>>)
    /\ UNCHANGED <<cfg, runs, entry, args, settings, store0, settings0, offline, logged_in, choices,
                   result, tty, jupyter, wkey, line, idx, tries>>

\* the CreateAccount and UseExisting branches up to the masked read: the
\* browser callback when there is one; its key is written and returned
AcquireBrowser(cbres) ==
    /\ pc = "acquire"
    /\ result \in {LOGIN_CHOICE_NEW, LOGIN_CHOICE_EXISTS}
    /\ IF args.cb
       THEN IF Truthy(cbres)
            THEN WriteAndReturn(cbres, <<Ev("browser_callback", None)>>)
            ELSE /\ key' = cbres
                 /\ trace' = trace \o <<Ev("browser_callback", None)>>
                 /\ pc' = "paste"
                 /\ UNCHANGED <<store, ret>>
       ELSE /\ cbres = None
            /\ pc' = "paste"
            /\ UNCHANGED <<key, trace, store, ret>>
    /\ UNCHANGED <<cfg, runs, entry, args, settings, store0, settings0, offline, logged_in, choices,
                   result, tty, jupyter, wkey, line, idx, tries>>

\* the masked read of the CreateAccount and UseExisting branches: the line is
\* stripped, written and returned
Paste(text) ==
    /\ pc = "paste"
    /\ WriteAndReturn(Str(Strip(text)), <<Ev("input_callback", None)>>)
    /\ UNCHANGED <<cfg, runs, entry, args, settings, store0, settings0, offline, logged_in, choices,
                   result, tty, jupyter, wkey, line, idx, tries>>

\* the else branch (DryRun, also when no_offline took DryRun out of
\* choices): in a notebook with a browser callback the callback's result is
\* unpacked into (key, anonymous); otherwise key is None; write_key, return
AcquireDryRun(cbres) ==
    /\ pc = "acquire"
    /\ result = LOGIN_CHOICE_DRYRUN
    /\ IF DryRunCallback(jupyter, args.cb)
       THEN LET u == UnpackPair(cbres)
            IN  IF u.ok
                THEN WriteAndReturn(u.out.val, <<Ev("browser_callback", None)>>)
                ELSE /\ trace' = trace \o <<Ev("browser_callback", None)>>
                     /\ Done(u.out)
                     /\ UNCHANGED <<key, store>>
       ELSE /\ cbres = None
            /\ WriteAndReturn(None, <<>>)
    /\ UNCHANGED <<cfg, runs, entry, args, settings, store0, settings0, offline, logged_in, choices,
                   result, tty, jupyter, wkey, line, idx, tries>>

\* Interrupt with the exception caught in prompt_api_key, which goes on with
\* no key
Interrupt_Caught ==
    /\ pc \in {"menu", "paste"}
    /\ WriteAndReturn(None, <<Ev("interrupted", None)>>)
    /\ UNCHANGED <<cfg, runs, entry, args, settings, store0, settings0, offline,
                   logged_in, choices, result, tty, jupyter, wkey, line, idx, tries>>

\* a blocking read (input() at the menu, input_callback() at the paste) is
\* interrupted: the exception leaves prompt_api_key and _login
Interrupt ==
    /\ pc \in {"menu", "paste"}
    /\ trace' = trace \o <<Ev("interrupted", None)>>
    /\ Done(Raised("KeyboardInterrupt", 0))
    /\ UNCHANGED <<cfg, runs, entry, args, settings, store, store0, settings0, offline,
                   logged_in, choices, result, tty, jupyter, key, wkey, line, idx, tries>>

----------------------------------------------------------------------------
(* wandb_login.py, after the prompt *)

\* key is False
KeyIsFalse(k) == k = Bool(FALSE)

\* _WandbLogin.prompt_api_key after apikey.prompt_api_key returned key:
\* UsageError when key is False (prompt_api_key returns a key or None, never
\* False), else update_session(key) and _key = key
Bind ==
    /\ pc = "bind"
    /\ IF KeyIsFalse(key)
       THEN /\ Done(Raised("UsageError", 0))
            /\ UNCHANGED <<settings, wkey, trace>>
       ELSE \E rok \in RefreshOutcomes(settings, key) :
            /\ settings' = SessionSettings(settings, key)
            /\ trace' = trace \o SessionCallEvents(settings, key, rok)
            /\ IF RefreshEnds(rok).kind = "raise"
               THEN Done(RefreshEnds(rok)) /\ UNCHANGED wkey
               ELSE /\ wkey' = key
                    /\ pc' = "finish"
                    /\ UNCHANGED ret
    /\ UNCHANGED <<cfg, runs, entry, args, store, store0, settings0, offline, logged_in,
                   choices, result, tty, jupyter, key, line, idx, tries>>

----------------------------------------------------------------------------
(* wandb_login.py, the end of _login *)

\* the end of _login: propogate_login(), return wlogin._key or False
Finish ==
    /\ pc = "finish"
    /\ Done(Returned(IF Truthy(wkey) THEN wkey ELSE Bool(FALSE)))
    /\ UNCHANGED <<cfg, runs, entry, args, settings, store, store0, settings0,
                   trace, offline, logged_in, choices, result, tty, jupyter, key, wkey, line, idx, tries>>

\* login(): True if configured else False, for the value _login returned
LoginResult(outcome) == Truthy(outcome.val)

\* the invocation is over: its outcome went to the caller, and the
\* _WandbLogin object and the locals are gone
Return ==
    /\ pc = "done"
    /\ pc' = "idle"
    /\ entry' = "none"
    /\ args' = NoArgs
    /\ ret' = NoOutcome
    /\ Fresh
    /\ trace' = <<>>
    /\ offline' = FALSE
    /\ UNCHANGED <<settings, store, cfg, runs>>

----------------------------------------------------------------------------

Next ==
    \/ \E anonymous \in AnonModes, k \in ExplicitKeys, relogin \in BOOLEAN,
          host \in Hosts, force \in BOOLEAN, silent \in BOOLEAN, run \in BOOLEAN,
          off \in BOOLEAN :
            LoginCall(anonymous, k, relogin, host, force, silent, run, off)
    \/ WLoginLogin
    \/ LoginKey
    \/ \E anonymous \in AnonModes, host \in Hosts,
          cb \in BOOLEAN, no_offline \in BOOLEAN, local \in BOOLEAN :
            PromptCall(anonymous, host, cb, no_offline, local)
    \/ \E jup \in BOOLEAN, tty_out \in BOOLEAN, tty_in \in BOOLEAN :
            DecideStep(jup, tty_out, tty_in)
    \/ \E text \in MenuInputs : MenuRead(text)
    \/ \E issued \in IssueOutcomes : AcquireAnon(issued)
    \/ \E cbres \in CallbackResults : AcquireBrowser(cbres)
    \/ \E text \in PasteInputs : Paste(text)
    \/ \E cbres \in CallbackResults : AcquireDryRun(cbres)
    \/ Interrupt
    \/ Bind
    \/ Finish
    \/ Return

Spec == Init /\ [][Next]_vars

\* the operator enters a valid index at the menu
MenuValid ==
    \E text \in MenuInputs : MenuRead(text) /\ ~InvalidIndex(ChoiceRead(text), choices)

\* the program with an operator who, asked at the menu, eventually enters a
\* valid index
SpecMenu == Spec /\ WF_vars(MenuValid)

\* the configurations a repeated login may have
Configs ==
    [anonymous : AnonModes, key : ExplicitKeys, relogin : BOOLEAN, host : Hosts,
     force : BOOLEAN, silent : BOOLEAN, run : BOOLEAN, off : BOOLEAN]

\* a process that calls wandb.login MaxRuns times in a row with one
\* configuration, starting with a store that holds a credential or none
InitTwice ==
    /\ pc = "idle"
    /\ entry = "none"
    /\ args = NoArgs
    /\ settings = [api_key |-> None, offline |-> FALSE]
    /\ store \in [Hosts -> {None, Str(KGood)}]
    /\ store0 = store
    /\ settings0 = settings
    /\ trace = <<>>
    /\ offline = FALSE
    /\ logged_in = FALSE
    /\ choices = <<>>
    /\ result = ""
    /\ tty = <<FALSE, FALSE>>
    /\ jupyter = FALSE
    /\ key = None
    /\ wkey = None
    /\ line = <<>>
    /\ idx = 0 - 1
    /\ tries = 0
    /\ ret = NoOutcome
    /\ cfg \in Configs
    /\ runs = 0

NextTwice ==
    \/ LoginRun
    \/ WLoginLogin
    \/ LoginKey
    \/ \E jup \in BOOLEAN, tty_out \in BOOLEAN, tty_in \in BOOLEAN :
            DecideStep(jup, tty_out, tty_in)
    \/ \E text \in MenuInputs : MenuRead(text)
    \/ \E issued \in IssueOutcomes : AcquireAnon(issued)
    \/ \E cbres \in CallbackResults : AcquireBrowser(cbres)
    \/ \E text \in PasteInputs : Paste(text)
    \/ \E cbres \in CallbackResults : AcquireDryRun(cbres)
    \/ Interrupt
    \/ Bind
    \/ Finish
    \/ Return

SpecTwice == InitTwice /\ [][NextTwice]_vars

----------------------------------------------------------------------------
(* Vocabulary of the properties *)

\* the running invocation made the call op
Did(op) == \E i \in 1..Len(trace) : trace[i].op = op

\* the operations of a trace, in order
Ops(tr) == [i \in 1..Len(tr) |-> tr[i].op]

NetworkOps == {"create_anonymous_api_key", "refresh"}
OperatorReadOps == {"input", "input_callback"}
AcquireOps == {"create_anonymous_api_key", "browser_callback", "input_callback"}

\* prompt_api_key got past its if/elif chain
Decided == choices # <<>>

\* the acquisition branch of prompt_api_key has run
Acquired == Decided /\ result # "" /\ pc \in {"bind", "finish", "done"}

\* the part of s after its first "-", all of s when it has none
AfterFirstDash(s) ==
    IF Contains(s, Dash) THEN SubSeq(s, IndexOf(s, Dash) + 1, Len(s)) ELSE s

\* the structural constraint on a credential
WellFormed(v) == v.t = "str" /\ v.s # <<>> /\ Len(AfterFirstDash(v.s)) = KeyLen

\* _login got past the active-run return and the offline return
InFlow == entry = "login" /\ ~args.run /\ ~offline

----------------------------------------------------------------------------
(* Properties *)

C2_ConfiguredMeansNoEffect ==
    ( /\ pc = "done"
      /\ InFlow
      /\ ~args.relogin
      /\ store0[args.host] # None )
    => ( /\ \A op \in NetworkOps : ~Did(op)
         /\ ~Did("write_netrc")
         /\ store = store0
         /\ ret.kind = "return"
         /\ LoginResult(ret) )

\* C2 as amended: when relogin is false, the configuration is not offline, no
\* explicit key is supplied and a credential resolves, the flow makes no
\* network call and no store write and reports success.
C2_ConfiguredNoKeyMeansNoEffect ==
    ( /\ pc = "done"
      /\ entry = "login"
      /\ ~offline
      /\ ~args.relogin
      /\ ~Truthy(args.key)
      /\ store0[args.host] # None )
    => ( /\ \A op \in NetworkOps : ~Did(op)
         /\ ~Did("write_netrc")
         /\ store = store0
         /\ settings.api_key = settings0.api_key
         /\ ret.kind = "return"
         /\ LoginResult(ret) )

C2_Witness ==
    /\ pc = "done"
    /\ InFlow
    /\ ~args.relogin
    /\ ~Truthy(args.key)
    /\ store0[args.host] # None
    /\ args.force
    /\ AnonMode(args) = "must"
    /\ Did("login_display")

\* C3: when the merged configuration is offline the flow returns False and
\* makes no call at all: no prompt, no acquisition, no validation, no store
\* read or write, no session update or refresh.
C3_OfflineReturnsFalseUntouched ==
    (entry = "login" /\ ~args.run /\ offline)
    => ( /\ pc = "done"
         /\ ret = Returned(Bool(FALSE))
         /\ ~LoginResult(ret)
         /\ trace = <<>>
         /\ ~Decided
         /\ store = store0
         /\ settings.api_key = settings0.api_key )

C3_Witness ==
    /\ pc = "done"
    /\ entry = "login"
    /\ ~args.run
    /\ offline
    /\ args.key = Str(KGood)
    /\ args.relogin
    /\ args.force
    /\ AnonMode(args) = "must"
    /\ store0[args.host] # None

\* C4 as stated: whenever the selected choice is DryRun, the acquisition step
\* returns no credential and writes none to the store.
C4_DryRunNoCredential ==
    (Acquired /\ result = LOGIN_CHOICE_DRYRUN)
    => (~Truthy(key) /\ ~Did("write_netrc") /\ store = store0)

\* C4 as amended: whenever the selected choice is DryRun, outside the case of
\* a notebook with a browser callback, the acquisition step returns no
\* credential and writes none to the store.
C4_DryRunNoCredentialUnlessNotebookCallback ==
    (Acquired /\ result = LOGIN_CHOICE_DRYRUN /\ ~(jupyter /\ args.cb))
    => (~Truthy(key) /\ ~Did("write_netrc") /\ store = store0)

C4_Witness ==
    /\ pc = "done"
    /\ result = LOGIN_CHOICE_DRYRUN
    /\ Acquired
    /\ args.cb
    /\ ~jupyter
    /\ tries > 0
    /\ ret = Returned(None)

\* C5: in a flow with relogin set, no run active and a configuration that is
\* not offline, the already-configured short cut is never taken (no identity
\* display, logged_in stays false, no return from the short cut), whatever
\* is stored for the host; past the configured check the flow has gone on to
\* obtain a credential: it validated the explicit key (write_key), or it
\* called the prompt, and past the call it is in, or has been through, the
\* decision of prompt_api_key.
C5_ReloginNeverShortCircuits ==
    (InFlow /\ args.relogin)
    => ( /\ ~logged_in
         /\ ~Did("login_display")
         /\ pc \notin {"login", "key"}
               => /\ Did("write_key") \/ Did("prompt_api_key")
                  /\ Truthy(args.key) <=> ~Did("prompt_api_key")
                  /\ Did("prompt_api_key") => (pc = "decide" \/ Decided) )

C5_Witness ==
    /\ pc = "done"
    /\ InFlow
    /\ args.relogin
    /\ store0[args.host] = Str(KGood)
    /\ ~Truthy(args.key)
    /\ Did("prompt_api_key")
    /\ Did("input_callback")
    /\ store[args.host] = Str(KOnprem)
    /\ ret = Returned(Str(KOnprem))

\* C6: every value handed to the credential store, and every value in it, is
\* a non-empty string whose part after the first "-" has length 40.
C6_StoredCredentialsWellFormed ==
    /\ \A i \in 1..Len(trace) : trace[i].op = "write_netrc" => WellFormed(trace[i].v)
    /\ \A h \in Hosts : store[h] # None => WellFormed(store[h])

C6_Witness ==
    /\ pc = "done"
    /\ Did("write_netrc")
    /\ store0[args.host] = Str(KGood)
    /\ store[args.host] = Str(KOnprem)

\* C7: write_key accepts a non-empty string exactly when its part after the
\* first "-" has length 40.
C7_AcceptsIffSuffixAfterFirstDashIs40 ==
    \A i \in 1..Len(trace) :
        (trace[i].op = "write_key" /\ trace[i].v.t = "str" /\ trace[i].v.s # <<>>)
        => ( (i < Len(trace) /\ trace[i + 1] = Ev("write_netrc", trace[i].v))
                <=> Len(AfterFirstDash(trace[i].v.s)) = KeyLen )

\* C8: every rejection of a non-empty string by write_key is an error that
\* carries the length of the whole string.
C8_RejectionCarriesLength ==
    ( /\ pc = "done"
      /\ ret.kind = "raise"
      /\ trace # <<>>
      /\ trace[Len(trace)].op = "write_key"
      /\ trace[Len(trace)].v.t = "str" )
    => (ret.exc = "ValueError:length" /\ ret.len = Len(trace[Len(trace)].v.s))

\* C9: with anonymous-mode must the decision is Anonymous and no line is read
\* from the operator, whatever the terminals, the notebook flag, local and
\* no_offline are.
C9_MustDecidesAnonymous ==
    (Decided /\ AnonMode(args) = "must")
    => ( /\ pc # "menu"
         /\ result = LOGIN_CHOICE_ANON
         /\ tries = 0
         /\ \A op \in OperatorReadOps : ~Did(op) )

C9_Witness ==
    /\ Decided
    /\ AnonMode(args) = "must"
    /\ tty = <<FALSE, TRUE>>
    /\ jupyter
    /\ args.local
    /\ args.no_offline
    /\ pc = "acquire"

\* C10: first match wins: without must, a terminal that is not interactive
\* gives DryRun with no read, local or not; local gives UseExisting exactly
\* when both terminals are interactive and the mode is not must; the menu is
\* read only when the mode is not must, both terminals are interactive and
\* local is false.
C10_FirstMatchWins ==
    Decided =>
        /\ (AnonMode(args) # "must" /\ (~tty[1] \/ ~tty[2]))
              => (pc # "menu" /\ result = LOGIN_CHOICE_DRYRUN /\ tries = 0)
        /\ args.local
              => /\ pc # "menu" /\ tries = 0
                 /\ result = LOGIN_CHOICE_EXISTS
                       <=> (AnonMode(args) # "must" /\ tty[1] /\ tty[2])
        /\ (pc = "menu" \/ tries > 0 \/ Did("input"))
              => (AnonMode(args) # "must" /\ tty[1] /\ tty[2] /\ ~args.local)

C10_Witness ==
    /\ Decided
    /\ AnonMode(args) = "allow"
    /\ tty = <<TRUE, FALSE>>
    /\ args.local
    /\ result = LOGIN_CHOICE_DRYRUN
    /\ pc = "done"

\* the number each line of MenuInputs denotes; 0 - 1 for the lines that
\* denote none (a letter, nothing, a digit behind a separator character)
EntryNumber(text) ==
    CASE text = <<Dig(0)>> -> 0
      [] text = <<VT, Dig(1), Tab>> -> 1
      [] text = <<Dig(0), Underscore, Dig(2)>> -> 2
      [] text = <<ArabicZero + 3>> -> 3
      [] text = <<OghamSpace, FullwidthZero + 4, LineFeed>> -> 4
      [] text = <<Dig(5)>> -> 5
      [] text = LongOne -> 1
      [] OTHER -> 0 - 1

\* the line read at the menu is a 1-based index into the visible menu
ValidEntry(text, menu) == EntryNumber(text) \in 1..Len(menu)

\* how many digits each line of MenuInputs has
EntryDigits ==
    [text \in MenuInputs |-> Cardinality({i \in 1..Len(text) : IsDigit(text[i])})]

\* the line has no more digits than int() converts
ShortEntry(text) == EntryDigits[text] <= IntMaxStrDigits

\* C11 as stated: in the menu branch an entry that is not a number, or a
\* number outside 1..size of the visible menu, is warned about and asked
\* again and selects nothing; the first valid index ends the loop with the
\* entry at that position of the visible menu; so the menu never gives
\* Anonymous under anonymous-mode never, nor DryRun in a notebook or under
\* no_offline; the visible menu is never empty; and with an operator who
\* eventually enters a valid index, a flow at the menu leaves it (with a
\* choice, or interrupted).
C11_MenuLoop ==
    /\ [](Decided => Len(choices) >= 1)
    /\ []((tries > 0 /\ result # "")
            => ( /\ ValidEntry(line, choices)
                 /\ result = choices[EntryNumber(line)]
                 /\ (AnonMode(args) = "never" => result # LOGIN_CHOICE_ANON)
                 /\ ((jupyter \/ args.no_offline) => result # LOGIN_CHOICE_DRYRUN) ))
    /\ [][ (pc = "menu" /\ tries' = tries + 1)
            => IF ValidEntry(line', choices)
               THEN /\ pc' = "acquire"
                    /\ result' = choices[EntryNumber(line')]
                    /\ trace' = trace \o <<Ev("input", None)>>
               ELSE /\ pc' = "menu"
                    /\ result' = ""
                    /\ trace' = trace \o <<Ev("input", None), Ev("termwarn", None)>> ]_vars
    /\ (pc = "menu") ~> ((pc = "acquire" /\ result # "") \/ Did("interrupted"))

\* C11 as amended: the same, a valid index being a number of 1..size of the
\* visible menu written with no more digits than int() converts (4300); a
\* longer entry is warned about and asked again like one that is not a
\* number.
C11_MenuLoopShortEntries ==
    /\ [](Decided => Len(choices) >= 1)
    /\ []((tries > 0 /\ result # "")
            => ( /\ ValidEntry(line, choices)
                 /\ ShortEntry(line)
                 /\ result = choices[EntryNumber(line)]
                 /\ (AnonMode(args) = "never" => result # LOGIN_CHOICE_ANON)
                 /\ ((jupyter \/ args.no_offline) => result # LOGIN_CHOICE_DRYRUN) ))
    /\ [][ (pc = "menu" /\ tries' = tries + 1)
            => IF ValidEntry(line', choices) /\ ShortEntry(line')
               THEN /\ pc' = "acquire"
                    /\ result' = choices[EntryNumber(line')]
                    /\ trace' = trace \o <<Ev("input", None)>>
               ELSE /\ pc' = "menu"
                    /\ result' = ""
                    /\ trace' = trace \o <<Ev("input", None), Ev("termwarn", None)>> ]_vars
    /\ (pc = "menu") ~> ((pc = "acquire" /\ result # "") \/ Did("interrupted"))

C11_Witness ==
    /\ pc = "acquire"
    /\ tries = 2
    /\ AnonMode(args) = "never"
    /\ Len(choices) = 3
    /\ line = <<Dig(0), Underscore, Dig(2)>>
    /\ result = LOGIN_CHOICE_EXISTS
    /\ Len(trace) >= 3
    /\ trace[Len(trace) - 1] = Ev("termwarn", None)


\* events that record how the preceding call ended
FailureMarks ==
    {"write_netrc_failed", "refresh_failed", "issuance_failed", "interrupted"}

\* the calls of _WandbLogin.login(): the configured check and the display
CheckOps == {"api_key", "login_display"}

\* the calls the flow made after _WandbLogin.login(), warnings apart
FlowCalls ==
    SelectSeq(trace, LAMBDA e : e.op \notin FailureMarks \cup CheckOps \cup {"termwarn"})

\* C12: when a non-empty explicit credential is supplied to a non-offline
\* login invocation (no active run), the flow never calls the choice prompt,
\* the issuance endpoint, the browser callback or an operator read; once the
\* configured check is over the calls are exactly validation (write_key), then
\* the store write, then the session update (and its refresh), all with the
\* supplied credential, or validation alone when it rejects the credential.
C12_ExplicitKeySkipsPrompt ==
    (InFlow /\ Truthy(args.key))
    => ( /\ ~Decided
         /\ ~Did("prompt_api_key")
         /\ \A op \in AcquireOps \cup OperatorReadOps : ~Did(op)
         /\ \A i \in 1..Len(FlowCalls) : FlowCalls[i].v = args.key
         /\ pc \in {"login", "key"} => FlowCalls = <<>>
         /\ pc \in {"finish", "done"} /\ Did("write_key")
              => Ops(FlowCalls) \in
                   (IF WriteKey(args.key).out.kind = "raise"
                    THEN {<<"write_key">>}
                    ELSE {<<"write_key", "write_netrc", "update_session">>,
                          <<"write_key", "write_netrc", "update_session", "refresh">>})
         /\ pc = "finish" => Did("write_key")
         /\ pc \notin {"login", "key", "finish", "done"} => FALSE )

C12_Witness ==
    /\ pc = "done"
    /\ InFlow
    /\ args.key = Str(KOnprem)
    /\ ~logged_in
    /\ Ops(trace) = <<"api_key", "write_key", "write_netrc", "update_session", "refresh">>
    /\ store[args.host] = Str(KOnprem)
    /\ ret = Returned(Str(KOnprem))


\* the running invocation has, so far, had no effect beyond the configured
\* check and the identity display
NoOpSoFar ==
    /\ store = store0
    /\ settings.api_key = settings0.api_key
    /\ ~Decided
    /\ \A op \in {"prompt_api_key", "write_key", "write_netrc", "update_session"}
                   \cup AcquireOps \cup OperatorReadOps \cup NetworkOps : ~Did(op)

\* C13 as stated: with relogin false, every run of the login flow after the
\* first with the same configuration is a no-op apart from the identity
\* display, whatever the first run did.
C13_SecondRunNoOp ==
    (runs >= 2 /\ entry = "login" /\ ~args.relogin) => NoOpSoFar

\* C13: with relogin false and no explicit key, a run of the login flow that
\* follows a run with the same configuration is a no-op apart from the
\* identity display when a credential resolves for the host as it starts (or
\* the configuration is offline, or a run is active): store and session are
\* left as they were, nothing is prompted, acquired or sent, and it ends
\* returning True (False when offline).
C13_SecondRunNoOpWhenResolvable ==
    ( /\ runs >= 2
      /\ entry = "login"
      /\ ~args.relogin
      /\ \/ args.run
         \/ offline
         \/ ~Truthy(args.key) /\ store0[args.host] # None )
    => ( /\ NoOpSoFar
         /\ pc = "done" => ret = Returned(Bool(~offline \/ args.run))
         /\ pc \in {"login", "key", "done"} )

C13_Witness ==
    /\ runs = 2
    /\ pc = "done"
    /\ InFlow
    /\ args = [NoArgs EXCEPT !.anonymous = cfg.anonymous]
    /\ ~cfg.relogin /\ cfg.key = None /\ ~cfg.force /\ ~cfg.silent
    /\ store0[args.host] = Str(KGood)
    /\ Ops(trace) = <<"api_key", "login_display">>
    /\ ret = Returned(Bool(TRUE))

\* the session state is as the running invocation found it: no session
\* update, no refresh
SessionUntouched ==
    /\ settings.api_key = settings0.api_key
    /\ ~Did("update_session")
    /\ ~Did("refresh")

\* how many calls of op the running invocation made
Count(op) == Len(SelectSeq(trace, LAMBDA e : e.op = op))

\* C14: when the Anonymous choice is taken and the issuance call fails, the
\* failure is the outcome of the flow, the issuance endpoint was called once,
\* nothing was validated or written to the store, and the session was neither
\* updated nor refreshed.
C14_IssuanceFailurePropagates ==
    Did("issuance_failed")
    => ( /\ result = LOGIN_CHOICE_ANON
         /\ pc = "done"
         /\ ret = Raised("CommError", 0)
         /\ Count("create_anonymous_api_key") = 1
         /\ trace[Len(trace)].op = "issuance_failed"
         /\ ~Did("write_key")
         /\ ~Did("write_netrc")
         /\ store = store0
         /\ SessionUntouched )

C14_Witness ==
    /\ Did("issuance_failed")
    /\ InFlow
    /\ Did("prompt_api_key")
    /\ AnonMode(args) = "allow"
    /\ tries = 1
    /\ line = <<VT, Dig(1), Tab>>
    /\ store0[args.host] = Str(KGood)
    /\ pc = "done"
    /\ ret.kind = "raise"

\* C15: when write_key rejects a candidate credential (the explicit key, the
\* pasted line, the browser callback's or the issuance endpoint's result), its
\* error is the outcome of the flow and the rejected write_key is the last
\* call made: nothing is prompted or read again, the store is as it was before
\* the attempt, and the session was neither updated nor refreshed.
C15_RejectionSurfacesUntouched ==
    \A i \in 1..Len(trace) :
        (trace[i].op = "write_key" /\ WriteKey(trace[i].v).out.kind = "raise")
        => ( /\ i = Len(trace)
             /\ pc = "done"
             /\ ret = WriteKey(trace[i].v).out
             /\ Count("write_key") = 1
             /\ ~Did("write_netrc")
             /\ store = store0
             /\ SessionUntouched )

C15_Witness ==
    /\ pc = "done"
    /\ InFlow
    /\ Did("prompt_api_key")
    /\ Did("input_callback")
    /\ trace[Len(trace)] = Ev("write_key", Str(KShort))
    /\ store0[args.host] = Str(KGood)
    /\ ret = Raised("ValueError:length", Len(KShort))

\* C16: when the store write of a validated credential fails, the attempt
\* fails: the credential is not bound to the session and the flow does not
\* return it (or True) as configured.
C16_WriteFailureFailsAttempt ==
    Did("write_netrc_failed")
    => ( /\ ~Did("update_session")
         /\ wkey = None
         /\ pc = "done" => ~(ret.kind = "return" /\ LoginResult(ret)) )

\* the credential of the last session update of the running invocation
LastBound ==
    LET ups == SelectSeq(trace, LAMBDA e : e.op = "update_session")
    IN  ups[Len(ups)].v

\* C17: a store write is never preceded by a session update; a session update
\* with a credential comes after the store write of that credential; a
\* refresh comes right after the session update with the same credential, and
\* a session update is followed by a refresh exactly when the session is not
\* offline after it, which is when the credential is not empty or absent; a
\* flow that ends with no credential has updated the session, which is then
\* in offline mode, and has requested no refresh.
C17_WriteThenBindThenRefresh ==
    /\ \A i \in 1..Len(trace) :
         LET v == trace[i].v
         IN  /\ trace[i].op = "write_netrc"
                  => \A j \in 1..(i - 1) : trace[j].op \notin {"update_session", "refresh"}
             /\ trace[i].op = "update_session"
                  => /\ Truthy(v) => \E j \in 1..(i - 1) : trace[j] = Ev("write_netrc", v)
                     /\ (i < Len(trace) /\ trace[i + 1] = Ev("refresh", v)) <=> Truthy(v)
             /\ trace[i].op = "refresh"
                  => i > 1 /\ trace[i - 1] = Ev("update_session", v)
    /\ Did("update_session")
         => /\ settings.offline <=> ~Truthy(LastBound)
            /\ Truthy(LastBound) => settings.api_key = LastBound
            /\ Did("refresh") <=> ~settings.offline
    /\ (pc = "done" /\ InFlow /\ ret = Returned(Bool(FALSE)))
         => (Did("update_session") /\ settings.offline /\ ~Did("refresh"))

C17_Witness ==
    /\ pc = "done"
    /\ InFlow
    /\ Len(trace) >= 5
    /\ Ops(SubSeq(trace, Len(trace) - 4, Len(trace)))
         = <<"input_callback", "write_key", "write_netrc", "update_session", "refresh">>
    /\ LastBound = Str(KGood)
    /\ store[args.host] = Str(KGood)
    /\ settings.api_key = Str(KGood)
    /\ store0[args.host] = None
    /\ settings0.offline
    /\ ret = Returned(Str(KGood))

\* C18: a failed refresh after the session update does not end the flow: the
\* credential stays bound to the session and kept by the login, and the flow
\* returns what it returns after a refresh that worked, the credential or
\* True.
C18_BestEffortFailuresNotFatal ==
    Did("refresh_failed")
         => /\ pc \in {"finish", "done"}
            /\ settings.api_key = LastBound
            /\ wkey = LastBound
            /\ pc = "done" => ret = Returned(IF logged_in THEN Bool(TRUE) ELSE LastBound)

\* C19: when login() returns (no run active), it returns True exactly when a
\* credential is configured for the session: the flow took the short cut on
\* a credential that resolves with relogin false, or a non-empty credential
\* was validated, is in the store and is bound to the session; it returns
\* False on the offline exit and when the flow ends with no credential.
C19_TrueIffConfigured ==
    (pc = "done" /\ entry = "login" /\ ~args.run /\ ret.kind = "return")
    => ( /\ LoginResult(ret)
            <=> ( \/ /\ ~offline
                     /\ logged_in
                     /\ ~args.relogin
                     /\ store0[args.host] # None
                  \/ /\ Did("write_key")
                     /\ Did("update_session")
                     /\ Truthy(LastBound)
                     /\ store[args.host] = LastBound
                     /\ settings.api_key = LastBound )
         /\ offline => ~LoginResult(ret)
         /\ (Did("update_session") /\ ~Truthy(LastBound)) => ~LoginResult(ret) )

\* the flow is blocked on the operator: at the menu read or the masked read
Blocked == pc \in {"menu", "paste"}

\* nothing was written to the store and the session is as it was
NothingPersisted ==
    /\ store = store0
    /\ ~Did("write_netrc")
    /\ SessionUntouched

\* C20: store writes and session updates come after every operator read of
\* the attempt: while the flow is blocked on a read nothing has been written
\* or bound and no write is under way; no read follows a store write or a
\* session update; and an interrupted read ends the flow with the interrupt
\* as its outcome, nothing persisted and the session unchanged.
C20_ReadsBeforeWrites ==
    /\ Blocked => (NothingPersisted /\ ~Did("write_key"))
    /\ \A i \in 1..Len(trace) :
         trace[i].op \in OperatorReadOps
            => \A j \in 1..(i - 1) :
                 trace[j].op \notin {"write_key", "write_netrc", "update_session", "refresh"}
    /\ Did("interrupted")
         => /\ pc = "done"
            /\ ret = Raised("KeyboardInterrupt", 0)
            /\ trace[Len(trace)].op = "interrupted"
            /\ NothingPersisted
            /\ ~Did("write_key")

C20_Witness ==
    /\ Did("interrupted")
    /\ pc = "done"
    /\ InFlow
    /\ args.relogin
    /\ Did("prompt_api_key")
    /\ tries = 1
    /\ Len(trace) >= 2
    /\ trace[Len(trace) - 1].op = "input"
    /\ store0[args.host] = Str(KGood)

\* C21: when a run is active, _login returns True at once whatever its
\* arguments are (relogin, a malformed explicit key, a configuration that
\* would be offline) and has no effect: the settings are as they were (none
\* applied, session unchanged), the store is as it was and was not read, and
\* nothing was prompted, acquired, validated or sent; the only call it may
\* make is the warning that login after init has no effect.
C21_ActiveRunReturnsTrueUntouched ==
    (entry = "login" /\ args.run)
    => ( /\ pc = "done"
         /\ ret = Returned(Bool(TRUE))
         /\ trace \in {<<>>, <<Ev("termwarn", None)>>}
         /\ settings = settings0
         /\ store = store0
         /\ ~offline
         /\ ~logged_in
         /\ ~Decided
         /\ tries = 0
         /\ key = None
         /\ wkey = None )

C21_Witness ==
    /\ pc = "done"
    /\ entry = "login"
    /\ args.run
    /\ args.relogin
    /\ args.force
    /\ args.key = Str(KShort)
    /\ AnonMode(args) = "must"
    /\ store0[args.host] = Str(KOnprem)
    /\ settings0.offline
    /\ trace = <<Ev("termwarn", None)>>
    /\ ret = Returned(Bool(TRUE))

====
